---- MODULE Spec2Model ----
(***************************************************************************)
(* A model of scripts/fetch_feeds.py: the conditional fetcher fetch_feed,  *)
(* the format parsers parse_rss / parse_atom it dispatches to, and the     *)
(* orchestrator main() with its thread pool, result collection, merge and  *)
(* write of feed_data.json.                                                *)
(*                                                                         *)
(* Three specifications share the module:                                  *)
(*   Spec      successive runs of main(), chained through feed_data.json   *)
(*   SpecFetch one call of fetch_feed on every modelled input              *)
(*   SpecPool  the ThreadPoolExecutor of main() with many feeds, by counts *)
(***************************************************************************)
EXTENDS Integers, Sequences, FiniteSets

VARIABLES
    feeds,       \* main: feeds = parse_feeds_js(FEEDS_JS), a sequence of [name, url]
    OUTPUT,      \* feed_data.json on disk, as far as main() reads it back
    pc,          \* main: position of the main thread
    feed_cache,  \* main: the local feed_cache (line 242)
    futures,     \* main: the futures of the pool, one per feed index
    results,     \* main: the list results (completion order)
    output,      \* main: the dict output (lines 274-279), when built
    written,     \* main: OUTPUT.write_text has run in this run
    call,        \* one call of fetch_feed (SpecFetch)
    pool,        \* the thread pool by counts (SpecPool)
    parse,       \* one call of parse_rss or parse_atom (SpecParse)
    history      \* per feed name, what the completed runs fetched (history only)

vars == <<feeds, OUTPUT, pc, feed_cache, futures, results, output, written, call, pool,
          parse, history>>

(***************************************************************************)
(* Bounds of the model                                                     *)
(***************************************************************************)
MaxFeeds == 2        \* longest feed list of a run under Spec
MaxPoolFeeds == 34   \* longest feed list under SpecPool (beyond MAX_WORKERS)
MaxElems == 2        \* most elements of a document under SpecParse
MaxLinks == 2        \* most link elements below an entry under SpecParse

(***************************************************************************)
(* Program constants                                                       *)
(***************************************************************************)
MAX_WORKERS == 32

\* Python's None, for the optional strings (error, etag, last_modified, text).
None == "<None>"

\* Truthiness of an optional string: None and "" are falsy.
Truthy(s) == s # None /\ s # ""

\* v1 if v1 is not None else v2
OrWhenNone(v1, v2) == IF v1 # None THEN v1 ELSE v2

\* v1 or v2
Or(v1, v2) == IF Truthy(v1) THEN v1 ELSE v2

\* dict helpers: a dict is a function on its key set.
EmptyDict == [k \in {} |-> None]
DictPut(d, k, v) == [x \in (DOMAIN d) \cup {k} |-> IF x = k THEN v ELSE d[x]]

(***************************************************************************)
(* Documents.  A parsed document is its root tag and the elements that     *)
(* root.iter() walks, in document order.  An element carries what          *)
(* _el_text finds for its title and link children (None when the child is  *)
(* missing or has no text, "" when the text is blank) and the link         *)
(* elements entry.iter(ns + "link") yields, each with its rel and href     *)
(* attributes (None when the attribute is absent).  iter walks the whole   *)
(* subtree: child tells a link that is a child of the entry from one that  *)
(* lies deeper (in the entry's source element, say).                       *)
(***************************************************************************)
AtomNS == "{http://www.w3.org/2005/Atom}"

Tag(ns, local) == [ns |-> ns, local |-> local]

Link(rel, href) == [rel |-> rel, href |-> href, child |-> TRUE]

NestedLink(rel, href) == [rel |-> rel, href |-> href, child |-> FALSE]

Element(tag, title, link, links) ==
    [tag |-> tag, title |-> title, link |-> link, links |-> links]

Article(feed_name, title, link) == [feed |-> feed_name, title |-> title, link |-> link]

RECURSIVE SelectTag(_, _)
\* root.iter(tag): the elements with that tag, in document order
SelectTag(elems, tag) ==
    IF elems = <<>> THEN <<>>
    ELSE IF Head(elems).tag = tag
         THEN <<Head(elems)>> \o SelectTag(Tail(elems), tag)
         ELSE SelectTag(Tail(elems), tag)

\* lnk.get(attr, default)
GetAttr(v, default) == IF v = None THEN default ELSE v

RECURSIVE atom_link(_, _)
\* the link loop of parse_atom (lines 128-135), link being the value so far
atom_link(links, link) ==
    IF links = <<>> THEN link
    ELSE LET lnk == Head(links)
             href == GetAttr(lnk.href, "")
         IN IF GetAttr(lnk.rel, "alternate") = "alternate" /\ href # ""
            THEN href
            ELSE IF href # "" /\ link = "#"
                 THEN atom_link(Tail(links), href)
                 ELSE atom_link(Tail(links), link)

RECURSIVE rss_articles(_, _)
rss_articles(items, feed_name) ==
    IF items = <<>> THEN <<>>
    ELSE <<Article(feed_name,
                   Or(Head(items).title, "Untitled"),
                   Or(Head(items).link, "#"))>>
         \o rss_articles(Tail(items), feed_name)

parse_rss(root, feed_name) ==
    rss_articles(SelectTag(root.elems, Tag("", "item")), feed_name)

RECURSIVE atom_articles(_, _)
atom_articles(entries, feed_name) ==
    IF entries = <<>> THEN <<>>
    ELSE <<Article(feed_name,
                   Or(Head(entries).title, "Untitled"),
                   atom_link(Head(entries).links, "#"))>>
         \o atom_articles(Tail(entries), feed_name)

parse_atom(root, feed_name) ==
    LET ns == root.tag.ns
    IN atom_articles(SelectTag(root.elems, Tag(ns, "entry")), feed_name)

(***************************************************************************)
(* What the network answers to one request.  kind is the way urlopen and   *)
(* resp.read() end: "OK" (a 2xx response whose body is read), "HTTPError"  *)
(* (urlopen raises HTTPError with the status code, 304 included),          *)
(* "URLError" (connection refused, or the timeout expiring in urlopen),    *)
(* "ReadTimeout" (the timeout expiring in resp.read()) and "MemoryError"   *)
(* (resp.read() cannot buffer the body).                                   *)
(***************************************************************************)
Body(utf8, wellformed, tag, elems) ==
    [utf8 |-> utf8, wellformed |-> wellformed, tag |-> tag, elems |-> elems]

NoBody == Body(TRUE, FALSE, Tag("", ""), <<>>)

Response(kind, code, etag, last_modified, body) ==
    [kind |-> kind, code |-> code, etag |-> etag,
     last_modified |-> last_modified, body |-> body]

\* An exception: its class and, for HTTPError, the status code.
Exc(cls, code) == [cls |-> cls, code |-> code]

NoExc == Exc("", 0)

\* The classes each exception class derives from, itself included.
Bases(cls) ==
    CASE cls = "HTTPError"    -> {"HTTPError", "URLError", "OSError", "Exception"}
      [] cls = "URLError"     -> {"URLError", "OSError", "Exception"}
      [] cls = "TimeoutError" -> {"TimeoutError", "OSError", "Exception"}
      [] cls = "ValueError"   -> {"ValueError", "Exception"}
      [] cls = "MemoryError"  -> {"MemoryError", "Exception"}
      [] cls = "ParseError"   -> {"ParseError", "SyntaxError", "Exception"}
      [] OTHER                -> {}

IsInstance(exc, cls) == cls \in Bases(exc.cls)

\* str(e)
Str(exc) ==
    CASE exc.cls = "HTTPError" /\ exc.code = 304 -> "HTTP Error 304: Not Modified"
      [] exc.cls = "HTTPError" /\ exc.code = 404 -> "HTTP Error 404: Not Found"
      [] exc.cls = "HTTPError" /\ exc.code = 500 -> "HTTP Error 500: Internal Server Error"
      [] exc.cls = "URLError"     -> "<urlopen error [Errno 111] Connection refused>"
      [] exc.cls = "TimeoutError" -> "The read operation timed out"
      [] exc.cls = "ValueError"   -> "unknown url type: 'feed'"
      [] exc.cls = "ParseError"   -> "syntax error: line 1, column 0"
      [] exc.cls = "MemoryError"  -> ""
      [] OTHER                    -> ""

\* f"XML parse error: {e}"
XmlParseErrorMessage(exc) ==
    IF Str(exc) = "syntax error: line 1, column 0"
    THEN "XML parse error: syntax error: line 1, column 0"
    ELSE "XML parse error: "

\* Request(url, headers=headers) raises ValueError on a URL without a scheme.
ValidUrl(url) == url # "feed"

(***************************************************************************)
(* fetch_feed                                                              *)
(***************************************************************************)
\* The optional cache argument: <<>> is None, <<entry>> a cache entry
\* [etag, last_modified, articles].  An entry main() wrote has all three
\* keys, so it is a non-empty dict and truthy.
CacheEntry(etag, last_modified, articles) ==
    [etag |-> etag, last_modified |-> last_modified, articles |-> articles]

NoCache == <<>>

\* lines 169-175 with the second validator attached only when the first is not
RequestHeadersOneValidator(cache) ==
    [UserAgent |-> "FeedFetcher/1.0",
     IfNoneMatch |-> IF cache # NoCache /\ Truthy(cache[1].etag)
                     THEN cache[1].etag ELSE None,
     IfModifiedSince |-> IF /\ cache # NoCache
                            /\ ~Truthy(cache[1].etag)
                            /\ Truthy(cache[1].last_modified)
                         THEN cache[1].last_modified ELSE None]

\* lines 169-175: the request headers; None stands for a header not set
RequestHeaders(cache) ==
    [UserAgent |-> "FeedFetcher/1.0",
     IfNoneMatch |-> IF cache # NoCache /\ Truthy(cache[1].etag)
                     THEN cache[1].etag ELSE None,
     IfModifiedSince |-> IF cache # NoCache /\ Truthy(cache[1].last_modified)
                         THEN cache[1].last_modified ELSE None]

\* lines 170-176
CachedArticles(cache) == IF cache # NoCache THEN cache[1].articles ELSE <<>>

\* The dict fetch_feed returns.  not_modified is FALSE where the key is absent.
FetchResult(name, articles, error, etag, last_modified, not_modified) ==
    [feed |-> name, articles |-> articles, error |-> error, etag |-> etag,
     last_modified |-> last_modified, not_modified |-> not_modified]

\* lines 185-192 with the validators of the prior entry dropped
NotModifiedResultWithoutValidators(name, cache) ==
    FetchResult(name, CachedArticles(cache), None, None, None, TRUE)

\* lines 185-192 with the cached articles dropped
NotModifiedResultWithoutArticles(name, cache) ==
    FetchResult(name, <<>>, None,
                IF cache # NoCache THEN cache[1].etag ELSE None,
                IF cache # NoCache THEN cache[1].last_modified ELSE None,
                TRUE)

\* lines 185-192
NotModifiedResult(name, cache) ==
    FetchResult(name, CachedArticles(cache), None,
                IF cache # NoCache THEN cache[1].etag ELSE None,
                IF cache # NoCache THEN cache[1].last_modified ELSE None,
                TRUE)

\* lines 199 and 217 with the message lost
ErrorResultWithoutMessage(name, message) == FetchResult(name, <<>>, None, None, None, FALSE)

\* lines 199 and 217
ErrorResult(name, message) == FetchResult(name, <<>>, message, None, None, FALSE)

\* line 224
FreshResult(name, articles, etag, last_modified) ==
    FetchResult(name, articles, None, etag, last_modified, FALSE)

\* How a call ends: it returns value, or it raises exc to its caller.
Returned(value) == [raised |-> FALSE, exc |-> NoExc, value |-> value]

Raised(name, exc) == [raised |-> TRUE, exc |-> exc, value |-> ErrorResult(name, None)]

\* lines 179-197: the exception that leaves the inner try statement, if any
RaisedInTry(url, resp) ==
    IF ~ValidUrl(url) THEN Exc("ValueError", 0)
    ELSE CASE resp.kind = "HTTPError"   -> Exc("HTTPError", resp.code)
           [] resp.kind = "URLError"    -> Exc("URLError", 0)
           [] resp.kind = "ReadTimeout" -> Exc("TimeoutError", 0)
           [] resp.kind = "MemoryError" -> Exc("MemoryError", 0)
           [] OTHER                     -> NoExc

\* line 182-183: except HTTPError as e: if e.code == 304
IsNotModified(exc) == IsInstance(exc, "HTTPError") /\ exc.code = 304

\* line 198 as except HTTPError
OuterCatchesHTTPErrorOnly(exc) == IsInstance(exc, "HTTPError")

\* line 198: except Exception
OuterCatches(exc) == IsInstance(exc, "Exception")

\* lines 201-204: utf-8, else latin-1; latin-1 decodes every byte string
Decode(raw) == [encoding |-> IF raw.utf8 THEN "utf-8" ELSE "latin-1", doc |-> raw]

\* lines 206-217: ET.fromstring(text) on the sanitized text; wellformed tells
\* whether the text parses once the BOM and the control characters are
\* stripped and the bare ampersands escaped
FromString(text) == IF text.doc.wellformed THEN NoExc ELSE Exc("ParseError", 0)

\* line 216: except ET.ParseError
ParseCatches(exc) == IsInstance(exc, "ParseError")

\* lines 219-222
IsAtomRoot(tag) == tag = Tag(AtomNS, "feed") \/ tag = Tag("", "feed")

ParseDocument(root, name) ==
    IF IsAtomRoot(root.tag) THEN parse_atom(root, name) ELSE parse_rss(root, name)

\* fetch_feed with the response validators kept in the parse-error result
fetch_feedKeepingValidators(feed, cache, resp) ==
    LET name == feed.name
        url == feed.url
        exc == RaisedInTry(url, resp)
    IN IF exc # NoExc
       THEN IF IsNotModified(exc)
            THEN Returned(NotModifiedResult(name, cache))
            ELSE IF OuterCatches(exc)
                 THEN Returned(ErrorResult(name, Str(exc)))
                 ELSE Raised(name, exc)
       ELSE LET text == Decode(resp.body)
                perr == FromString(text)
            IN IF perr # NoExc
               THEN IF ParseCatches(perr)
                    THEN Returned(FetchResult(name, <<>>, XmlParseErrorMessage(perr),
                                         resp.etag, resp.last_modified, FALSE))
                    ELSE Raised(name, perr)
               ELSE Returned(FreshResult(name, ParseDocument(text.doc, name),
                                         resp.etag, resp.last_modified))

fetch_feed(feed, cache, resp) ==
    LET name == feed.name
        url == feed.url
        exc == RaisedInTry(url, resp)
    IN IF exc # NoExc
       THEN IF IsNotModified(exc)
            THEN Returned(NotModifiedResult(name, cache))
            ELSE IF OuterCatches(exc)
                 THEN Returned(ErrorResult(name, Str(exc)))
                 ELSE Raised(name, exc)
       ELSE LET text == Decode(resp.body)
                perr == FromString(text)
            IN IF perr # NoExc
               THEN IF ParseCatches(perr)
                    THEN Returned(ErrorResult(name, XmlParseErrorMessage(perr)))
                    ELSE Raised(name, perr)
               ELSE Returned(FreshResult(name, ParseDocument(text.doc, name),
                                         resp.etag, resp.last_modified))

(***************************************************************************)
(* Inputs of the model: feed configs, documents and server behaviours      *)
(***************************************************************************)
FeedNames == <<"A", "B", "C", "D">>

FeedConfig(name, url) == [name |-> name, url |-> url]

GoodUrl == "http://host/feed"

\* parse_feeds_js yields the first n configured feeds; names are pairwise
\* distinct (the name is the identity key of a feed config).
FeedList(n) == [i \in 1..n |-> FeedConfig(FeedNames[i], GoodUrl)]

RssOne ==
    Body(TRUE, TRUE, Tag("", "rss"),
         <<Element(Tag("", "item"), "t1", "l1", <<>>)>>)

AtomTwo ==
    Body(TRUE, TRUE, Tag(AtomNS, "feed"),
         <<Element(Tag(AtomNS, "entry"), None, None,
                   <<Link("self", "s"), Link(None, "a")>>),
           Element(Tag(AtomNS, "entry"), "t2", None, <<>>)>>)

Latin1Rss ==
    Body(FALSE, TRUE, Tag("", "rss"),
         <<Element(Tag("", "item"), "", None, <<>>)>>)

Malformed == Body(TRUE, FALSE, Tag("", ""), <<>>)

Ok(body, etag, last_modified) == Response("OK", 200, etag, last_modified, body)

Fails(kind, code) == Response(kind, code, None, None, NoBody)

\* the server behaviours a fetch of a run meets
RunResponses ==
    { Ok(RssOne, "e1", "d1"), Ok(AtomTwo, "e2", None), Ok(Malformed, "e3", "d3"),
      Fails("HTTPError", 304), Fails("HTTPError", 404), Fails("MemoryError", 0) }

\* the server behaviours a single call of fetch_feed is tried on
AllResponses ==
    RunResponses \cup
    { Ok(Latin1Rss, None, "d4"), Ok(RssOne, "", ""),
      Fails("HTTPError", 500), Fails("URLError", 0), Fails("ReadTimeout", 0) }

\* the response is a failure of the fetch: anything but a 304 and a 2xx
\* response whose body parses
IsFailure(url, resp) ==
    \/ ~ValidUrl(url)
    \/ resp.kind \notin {"OK", "HTTPError"}
    \/ resp.kind = "HTTPError" /\ resp.code # 304
    \/ resp.kind = "OK" /\ ~resp.body.wellformed

(***************************************************************************)
(* feed_data.json.  shape tells what main() finds on disk:                 *)
(*   "absent"                 OUTPUT.exists() is false                     *)
(*   "unreadable"             read_text raises                             *)
(*   "invalid_json"           json.loads raises                            *)
(*   "not_mapping"            valid JSON, the top level is not an object   *)
(*   "no_feedcache"           an object without the key feedCache          *)
(*   "feedcache_not_mapping"  an object whose feedCache is not an object   *)
(*   "document"               an object whose feedCache is the dict        *)
(*                            feedCache                                    *)
(* Of a document written by main() only feedCache is kept: it is all that  *)
(* a later run reads back.                                                 *)
(***************************************************************************)
File(shape, feedCache) == [shape |-> shape, feedCache |-> feedCache]

ForeignShapes ==
    {"absent", "unreadable", "invalid_json", "not_mapping", "no_feedcache",
     "feedcache_not_mapping"}

\* a Python value that is a dict (mapping, with its entries) or is not
PyValue(mapping, entries) == [mapping |-> mapping, entries |-> entries]

\* lines 236-241: existing, as [mapping, has feedCache, feedCache value]
Existing(file) ==
    IF file.shape \in {"absent", "unreadable", "invalid_json"}
    THEN [mapping |-> TRUE, has |-> FALSE, value |-> PyValue(TRUE, EmptyDict)]
    ELSE CASE file.shape = "not_mapping" ->
                [mapping |-> FALSE, has |-> FALSE, value |-> PyValue(TRUE, EmptyDict)]
           [] file.shape = "no_feedcache" ->
                [mapping |-> TRUE, has |-> FALSE, value |-> PyValue(TRUE, EmptyDict)]
           [] file.shape = "feedcache_not_mapping" ->
                [mapping |-> TRUE, has |-> TRUE, value |-> PyValue(FALSE, EmptyDict)]
           [] OTHER ->
                [mapping |-> TRUE, has |-> TRUE, value |-> PyValue(TRUE, file.feedCache)]

\* line 242: existing.get("feedCache", {})
GetFeedCache(existing) ==
    IF existing.has THEN existing.value ELSE PyValue(TRUE, EmptyDict)

\* line 248: feed_cache.get(f["name"])
CacheGet(entries, name) == IF name \in DOMAIN entries THEN <<entries[name]>> ELSE NoCache

(***************************************************************************)
(* main(): the merge of the collected results (lines 260-279)              *)
(***************************************************************************)
\* line 265: if r["error"]
HasError(r) == Truthy(r.error)

RECURSIVE AllArticles(_)
\* lines 260-264: all_articles.extend(r["articles"]) over results
AllArticles(rs) ==
    IF rs = <<>> THEN <<>> ELSE Head(rs).articles \o AllArticles(Tail(rs))

\* lines 265-266 without the test of line 265: every result is filed under
\* errors
ErrorsForEveryResult(rs, errors) ==
    [name \in (DOMAIN errors) \cup {rs[k].feed : k \in DOMAIN rs} |->
        IF \E k \in DOMAIN rs : rs[k].feed = name
        THEN LET k == CHOOSE k \in DOMAIN rs :
                          /\ rs[k].feed = name
                          /\ \A j \in DOMAIN rs : rs[j].feed = name => j <= k
             IN rs[k].error
        ELSE errors[name]]

RECURSIVE Errors(_, _)
\* lines 265-266
Errors(rs, errors) ==
    IF rs = <<>> THEN errors
    ELSE Errors(Tail(rs),
                IF HasError(Head(rs))
                THEN DictPut(errors, Head(rs).feed, Head(rs).error)
                ELSE errors)

\* lines 267-272 giving up the cache of the run when any feed has an error
NewFeedCacheUnlessAnyError(rs, new_feed_cache) ==
    IF \E k \in DOMAIN rs : HasError(rs[k])
    THEN new_feed_cache
    ELSE [name \in (DOMAIN new_feed_cache) \cup {rs[k].feed : k \in DOMAIN rs} |->
            IF \E k \in DOMAIN rs : rs[k].feed = name
            THEN LET k == CHOOSE k \in DOMAIN rs :
                              /\ rs[k].feed = name
                              /\ \A j \in DOMAIN rs : rs[j].feed = name => j <= k
                 IN CacheEntry(rs[k].etag, rs[k].last_modified, rs[k].articles)
            ELSE new_feed_cache[name]]

RECURSIVE NewFeedCache(_, _)
\* lines 267-272
NewFeedCache(rs, new_feed_cache) ==
    IF rs = <<>> THEN new_feed_cache
    ELSE NewFeedCache(Tail(rs),
                      IF HasError(Head(rs))
                      THEN new_feed_cache
                      ELSE DictPut(new_feed_cache, Head(rs).feed,
                                   CacheEntry(Head(rs).etag, Head(rs).last_modified,
                                              Head(rs).articles)))

Output(built, articles, errors, feedCache) ==
    [built |-> built, articles |-> articles, errors |-> errors, feedCache |-> feedCache]

NoOutput == Output(FALSE, <<>>, EmptyDict, EmptyDict)

(***************************************************************************)
(* main(): the futures of the pool                                         *)
(***************************************************************************)
Future(state, cache, resp, outcome) ==
    [state |-> state, cache |-> cache, resp |-> resp, outcome |-> outcome]

NoResponse == Fails("", 0)

Pending == Returned(ErrorResult("", None))

\* line 247 as max_workers=len(feeds)
PoolSizeUncapped(n) == n

\* line 247: max_workers of the pool
PoolSize(n) == IF n < MAX_WORKERS THEN n ELSE MAX_WORKERS

Running == {i \in DOMAIN futures : futures[i].state \in {"running", "stalled"}}

\* the merge starting at the first collected result
FirstCollected == Len(results) >= 1

\* the as_completed loop has yielded every future and the with block is left
AllCollected == Len(results) = Len(feeds)

\* dummies for the variables of the other specifications
NoHeaders == [UserAgent |-> None, IfNoneMatch |-> None, IfModifiedSince |-> None]

NoCall ==
    [pc |-> "idle", feed |-> FeedConfig("", ""), cache |-> NoCache,
     headers |-> NoHeaders, resp |-> NoResponse, outcome |-> Pending]

NoParse == [pc |-> "idle", root |-> NoBody, feed_name |-> "", articles |-> <<>>]

NoPool == [n |-> 0, submitted |-> 0, running |-> 0, finished |-> 0,
           dispatched |-> <<>>]

(***************************************************************************)
(* What the completed runs did for each feed name.  It is not state of the *)
(* program: it remembers, across the runs chained through feed_data.json,  *)
(* whether the feed's fetch of the last completed run failed, and the      *)
(* articles parsed from the feed's most recent 200 response as long as     *)
(* every run since that response was answered 304 (valid).                 *)
(***************************************************************************)
FeedNamesOf(fs) == {fs[i].name : i \in DOMAIN fs}

History(failed, valid, articles) ==
    [failed |-> failed, valid |-> valid, articles |-> articles]

NoHistory == History(FALSE, FALSE, <<>>)

\* the history of a feed after a run whose fetch of it met resp
Remember(h, feed, resp) ==
    IF IsFailure(feed.url, resp)
    THEN History(TRUE, FALSE, <<>>)
    ELSE IF resp.kind = "OK"
         THEN History(FALSE, TRUE, ParseDocument(resp.body, feed.name))
         ELSE History(FALSE, h.valid, h.articles)

\* the history after the run that is being written
Record(h) ==
    [name \in DOMAIN h |->
        LET i == CHOOSE j \in DOMAIN feeds : feeds[j].name = name
        IN Remember(h[name], feeds[i], futures[i].resp)]

mainVars == <<feeds, OUTPUT, pc, feed_cache, futures, results, output, written, history>>

(***************************************************************************)
(* Spec: runs of main()                                                    *)
(***************************************************************************)
Init ==
    /\ feeds \in {FeedList(n) : n \in 0..MaxFeeds}
    /\ OUTPUT \in {File(shape, EmptyDict) : shape \in ForeignShapes}
    /\ pc = "start"
    /\ feed_cache = PyValue(TRUE, EmptyDict)
    /\ futures = <<>>
    /\ results = <<>>
    /\ output = NoOutput
    /\ written = FALSE
    /\ call = NoCall
    /\ pool = NoPool
    /\ parse = NoParse
    /\ history = [name \in FeedNamesOf(feeds) |-> NoHistory]

\* lines 229-232 without the check for an empty list
ParseFeedsWithoutCheck ==
    /\ pc = "start"
    /\ pc' = "load"
    /\ UNCHANGED <<feeds, OUTPUT, feed_cache, futures, results, output, written,
                   call, pool, parse, history>>

\* lines 229-232: no feeds is fatal, sys.exit(1)
ParseFeeds ==
    /\ pc = "start"
    /\ pc' = IF Len(feeds) = 0 THEN "exit1" ELSE "load"
    /\ UNCHANGED <<feeds, OUTPUT, feed_cache, futures, results, output, written,
                   call, pool, parse, history>>

\* lines 236-242: existing.get raises AttributeError when existing is no dict
LoadExisting ==
    /\ pc = "load"
    /\ LET existing == Existing(OUTPUT)
       IN IF existing.mapping
          THEN /\ feed_cache' = GetFeedCache(existing)
               /\ pc' = "dispatch"
          ELSE /\ pc' = "crashed"
               /\ UNCHANGED feed_cache
    /\ UNCHANGED <<feeds, OUTPUT, futures, results, output, written, call, pool, parse, history>>

\* lines 247-248: one future per feed, each with the feed's prior entry;
\* feed_cache.get raises AttributeError when feed_cache is no dict
Dispatch ==
    /\ pc = "dispatch"
    /\ IF feed_cache.mapping
       THEN /\ futures' = [i \in 1..Len(feeds) |->
                             Future("queued",
                                    CacheGet(feed_cache.entries, feeds[i].name),
                                    NoResponse, Pending)]
            /\ pc' = "collect"
       ELSE /\ pc' = "crashed"
            /\ UNCHANGED futures
    /\ UNCHANGED <<feeds, OUTPUT, feed_cache, results, output, written, call, pool, parse, history>>

\* a worker thread of the pool takes the next queued call of fetch_feed
StartFetch(i) ==
    /\ pc = "collect"
    /\ i \in DOMAIN futures
    /\ futures[i].state = "queued"
    /\ \A j \in 1..(i - 1) : futures[j].state # "queued"
    /\ Cardinality(Running) < PoolSize(Len(feeds))
    /\ futures' = [futures EXCEPT ![i].state = "running"]
    /\ UNCHANGED <<feeds, OUTPUT, pc, feed_cache, results, output, written,
                   call, pool, parse, history>>

\* the call of fetch_feed ends, on whatever the server does
CompleteFetch(i) ==
    /\ pc = "collect"
    /\ i \in DOMAIN futures
    /\ futures[i].state = "running"
    /\ \E resp \in RunResponses :
         futures' = [futures EXCEPT
                       ![i].state = "done",
                       ![i].resp = resp,
                       ![i].outcome = fetch_feed(feeds[i], futures[i].cache, resp)]
    /\ UNCHANGED <<feeds, OUTPUT, pc, feed_cache, results, output, written,
                   call, pool, parse, history>>

\* line 181: timeout=FETCH_TIMEOUT is the timeout of each blocking socket
\* operation, not of the call: a server that keeps sending a few bytes
\* within every FETCH_TIMEOUT seconds keeps resp.read() from returning
StallFetch(i) ==
    /\ pc = "collect"
    /\ i \in DOMAIN futures
    /\ futures[i].state = "running"
    /\ futures' = [futures EXCEPT ![i].state = "stalled"]
    /\ UNCHANGED <<feeds, OUTPUT, pc, feed_cache, results, output, written,
                   call, pool, parse, history>>

\* lines 249-258: as_completed yields a finished future; future.result()
\* re-raises what the call raised
Collect(i) ==
    /\ pc = "collect"
    /\ i \in DOMAIN futures
    /\ futures[i].state = "done"
    /\ futures' = [futures EXCEPT ![i].state = "collected"]
    /\ IF futures[i].outcome.raised
       THEN /\ pc' = "crashed"
            /\ UNCHANGED results
       ELSE /\ results' = Append(results, futures[i].outcome.value)
            /\ UNCHANGED pc
    /\ UNCHANGED <<feeds, OUTPUT, feed_cache, output, written, call, pool, parse, history>>

\* lines 260-279, once the with block is left
Assemble ==
    /\ pc = "collect"
    /\ AllCollected
    /\ output' = Output(TRUE, AllArticles(results), Errors(results, EmptyDict),
                        NewFeedCache(results, EmptyDict))
    /\ pc' = "write"
    /\ UNCHANGED <<feeds, OUTPUT, feed_cache, futures, results, written, call, pool, parse, history>>

\* lines 280-282 as a merge into the document on disk: the entries of the
\* feeds that are not in the new feedCache stay
WriteOutputKeepingOldEntries ==
    /\ pc = "write"
    /\ OUTPUT' = File("document",
                      [k \in (DOMAIN OUTPUT.feedCache) \cup (DOMAIN output.feedCache) |->
                          IF k \in DOMAIN output.feedCache
                          THEN output.feedCache[k] ELSE OUTPUT.feedCache[k]])
    /\ written' = TRUE
    /\ pc' = "done"
    /\ history' = Record(history)
    /\ UNCHANGED <<feeds, feed_cache, futures, results, output, call, pool, parse>>

\* lines 280-282
WriteOutput ==
    /\ pc = "write"
    /\ OUTPUT' = File("document", output.feedCache)
    /\ written' = TRUE
    /\ pc' = "done"
    /\ history' = Record(history)
    /\ UNCHANGED <<feeds, feed_cache, futures, results, output, call, pool, parse>>

\* the next run of the script: a new process, the same feeds.js, the
\* feed_data.json the last run left
NextRun ==
    /\ pc = "done"
    /\ pc' = "start"
    /\ feed_cache' = PyValue(TRUE, EmptyDict)
    /\ futures' = <<>>
    /\ results' = <<>>
    /\ output' = NoOutput
    /\ written' = FALSE
    /\ UNCHANGED <<feeds, OUTPUT, call, pool, parse, history>>

Next ==
    \/ ParseFeeds
    \/ LoadExisting
    \/ Dispatch
    \/ \E i \in 1..MaxFeeds : StartFetch(i)
    \/ \E i \in 1..MaxFeeds : CompleteFetch(i)
    \/ \E i \in 1..MaxFeeds : StallFetch(i)
    \/ \E i \in 1..MaxFeeds : Collect(i)
    \/ Assemble
    \/ WriteOutput
    \/ NextRun

Spec == Init /\ [][Next]_vars

\* the process is scheduled: a step main() or a worker can take is taken.
\* Nothing obliges the server to finish a body (StallFetch)
SpecLive == Spec /\ WF_vars(Next)

(***************************************************************************)
(* SpecFetch: one call of fetch_feed, on every feed config, prior cache    *)
(* entry and server behaviour of the model                                 *)
(***************************************************************************)
\* the cache entries main() records for a feed (lines 268-272), over the
\* responses that parse, and the entry without validators or articles
CacheEntriesOf(name) ==
    { CacheEntry(r.etag, r.last_modified, ParseDocument(r.body, name)) :
        r \in {x \in AllResponses : x.kind = "OK" /\ x.body.wellformed} }
    \cup { CacheEntry(None, None, <<>>) }

CacheArgs(name) == {NoCache} \cup { <<e>> : e \in CacheEntriesOf(name) }

CallInputs ==
    UNION { { [pc |-> "ready", feed |-> FeedConfig(name, url), cache |-> cache,
               headers |-> NoHeaders, resp |-> resp, outcome |-> Pending] :
              url \in {GoodUrl, "feed"}, cache \in CacheArgs(name),
              resp \in AllResponses } :
            name \in {FeedNames[1], FeedNames[2]} }

InitFetch ==
    /\ call \in CallInputs
    /\ feeds = <<>>
    /\ OUTPUT = File("absent", EmptyDict)
    /\ pc = "start"
    /\ feed_cache = PyValue(TRUE, EmptyDict)
    /\ futures = <<>>
    /\ results = <<>>
    /\ output = NoOutput
    /\ written = FALSE
    /\ pool = NoPool
    /\ parse = NoParse
    /\ history = EmptyDict

FetchCall ==
    /\ call.pc = "ready"
    /\ call' = [call EXCEPT !.pc = "returned",
                            !.headers = RequestHeaders(call.cache),
                            !.outcome = fetch_feed(call.feed, call.cache, call.resp)]
    /\ UNCHANGED <<mainVars, pool, parse>>

NextFetch == FetchCall

SpecFetch == InitFetch /\ [][NextFetch]_vars

(***************************************************************************)
(* SpecPool: the pool of main() (lines 247-250) with up to MaxPoolFeeds    *)
(* feeds.  The feeds are submitted in list order; the pool runs at most    *)
(* max_workers calls at a time and takes queued calls first in, first out, *)
(* so the state is the number of feeds submitted, running and finished,    *)
(* and how often each feed was handed to pool.submit.                      *)
(***************************************************************************)
InitPool ==
    /\ pool \in { [n |-> n, submitted |-> 0, running |-> 0, finished |-> 0,
                   dispatched |-> [i \in 1..n |-> 0]] : n \in 1..MaxPoolFeeds }
    /\ call = NoCall
    /\ parse = NoParse
    /\ feeds = <<>>
    /\ OUTPUT = File("absent", EmptyDict)
    /\ pc = "start"
    /\ feed_cache = PyValue(TRUE, EmptyDict)
    /\ futures = <<>>
    /\ results = <<>>
    /\ output = NoOutput
    /\ written = FALSE
    /\ history = EmptyDict

PoolQueued == pool.submitted - pool.running - pool.finished

\* line 248: pool.submit for the next feed of the list
PoolSubmit ==
    /\ pool.submitted < pool.n
    /\ pool' = [pool EXCEPT !.submitted = @ + 1,
                            !.dispatched[pool.submitted + 1] = @ + 1]
    /\ UNCHANGED <<mainVars, call, parse>>

\* a worker thread takes a queued call
PoolStart ==
    /\ PoolQueued > 0
    /\ pool.running < PoolSize(pool.n)
    /\ pool' = [pool EXCEPT !.running = @ + 1]
    /\ UNCHANGED <<mainVars, call, parse>>

\* a call of fetch_feed ends
PoolFinish ==
    /\ pool.running > 0
    /\ pool' = [pool EXCEPT !.running = @ - 1, !.finished = @ + 1]
    /\ UNCHANGED <<mainVars, call, parse>>

NextPool == PoolSubmit \/ PoolStart \/ PoolFinish

SpecPool == InitPool /\ [][NextPool]_vars

(***************************************************************************)
(* SpecParse: one call of parse_rss or parse_atom, dispatched on the root  *)
(* tag as fetch_feed does (lines 219-222), on every document of the model  *)
(***************************************************************************)
SeqsUpTo(S, n) == UNION { [1..k -> S] : k \in 0..n }

\* the link elements below an entry
LinkSet ==
    { [rel |-> rel, href |-> href, child |-> child] :
        rel \in {None, "alternate", "self"},
        href \in {None, "", "a", "b", "#"},
        child \in BOOLEAN }

\* documents that vary the elements: items, entries with and without the
\* Atom namespace, other elements; titles and links missing, blank or set
ElementSet ==
    { Element(Tag("", "item"), title, link, <<>>) :
        title \in {None, "", "t"}, link \in {None, "", "l"} }
    \cup
    { Element(Tag(ns, "entry"), title, None, links) :
        ns \in {AtomNS, ""}, title \in {None, "t"},
        links \in {<<>>, <<Link(None, "a")>>, <<Link("self", "")>>} }
    \cup { Element(Tag("", "channel"), "t", "l", <<>>) }

RootTags == {Tag("", "rss"), Tag(AtomNS, "feed"), Tag("", "feed")}

ElementDocuments ==
    { Body(TRUE, TRUE, tag, elems) :
        tag \in RootTags, elems \in SeqsUpTo(ElementSet, MaxElems) }

\* documents that vary the links of one Atom entry
LinkDocuments ==
    { Body(TRUE, TRUE, Tag(AtomNS, "feed"),
           <<Element(Tag(AtomNS, "entry"), "t", None, links)>>) :
        links \in SeqsUpTo(LinkSet, MaxLinks) }

InitParse ==
    /\ parse \in { [pc |-> "ready", root |-> root, feed_name |-> FeedNames[1],
                    articles |-> <<>>] :
                   root \in ElementDocuments \cup LinkDocuments }
    /\ call = NoCall
    /\ pool = NoPool
    /\ feeds = <<>>
    /\ OUTPUT = File("absent", EmptyDict)
    /\ pc = "start"
    /\ feed_cache = PyValue(TRUE, EmptyDict)
    /\ futures = <<>>
    /\ results = <<>>
    /\ output = NoOutput
    /\ written = FALSE
    /\ history = EmptyDict

\* line 222
ParseRss ==
    /\ parse.pc = "ready"
    /\ ~IsAtomRoot(parse.root.tag)
    /\ parse' = [parse EXCEPT !.pc = "rss",
                              !.articles = parse_rss(parse.root, parse.feed_name)]
    /\ UNCHANGED <<mainVars, call, pool>>

\* line 220
ParseAtom ==
    /\ parse.pc = "ready"
    /\ IsAtomRoot(parse.root.tag)
    /\ parse' = [parse EXCEPT !.pc = "atom",
                              !.articles = parse_atom(parse.root, parse.feed_name)]
    /\ UNCHANGED <<mainVars, call, pool>>

NextParse == ParseRss \/ ParseAtom

SpecParse == InitParse /\ [][NextParse]_vars

(***************************************************************************)
(* Properties                                                              *)
(***************************************************************************)
RECURSIVE ArticlesInFeedOrder(_)
\* the per-feed article lists of the run, concatenated in feed-list order
ArticlesInFeedOrder(i) ==
    IF i > Len(feeds) THEN <<>>
    ELSE futures[i].outcome.value.articles \o ArticlesInFeedOrder(i + 1)

\* the fetch of feed i of the run failed
FetchFailed(i) == IsFailure(feeds[i].url, futures[i].resp)

\* C1: the articles of the aggregate output are the per-feed article lists
\* concatenated in input feed-list order, whatever the completion order.
C1_ArticlesInFeedListOrder ==
    output.built => output.articles = ArticlesInFeedOrder(1)

\* C2: a call with a prior cache entry that the server answers with 304
\* returns not_modified true, no error and the entry's articles.
C2_NotModifiedReusesCachedArticles ==
    ( /\ call.pc = "returned"
      /\ call.cache # NoCache
      /\ ValidUrl(call.feed.url)
      /\ call.resp.kind = "HTTPError" /\ call.resp.code = 304 )
    => /\ ~call.outcome.raised
       /\ call.outcome.value.not_modified = TRUE
       /\ call.outcome.value.error = None
       /\ call.outcome.value.articles = call.cache[1].articles

C2_Witness ==
    /\ call.pc = "returned"
    /\ call.cache # NoCache
    /\ Len(call.cache[1].articles) = 2
    /\ ValidUrl(call.feed.url)
    /\ call.resp.kind = "HTTPError" /\ call.resp.code = 304
    /\ Len(call.outcome.value.articles) = 2

\* C3: feedCache of the aggregate output has no entry for a feed whose
\* fetch failed in the run.
C3_NoCacheEntryForFailedFeed ==
    output.built =>
        \A i \in DOMAIN futures :
            FetchFailed(i) => feeds[i].name \notin DOMAIN output.feedCache

\* C4: errors of the aggregate output maps every feed whose fetch failed to
\* a non-empty message, and no feed whose fetch succeeded or returned 304.
C4_ErrorsHoldExactlyTheFailedFeeds ==
    output.built =>
        \A i \in DOMAIN futures :
            /\ FetchFailed(i) =>
                   /\ feeds[i].name \in DOMAIN output.errors
                   /\ output.errors[feeds[i].name] # ""
            /\ ~FetchFailed(i) => feeds[i].name \notin DOMAIN output.errors

ClassError == call.outcome.value.error # None

ClassNotModified == call.outcome.value.not_modified = TRUE

ClassFresh ==
    /\ ValidUrl(call.feed.url)
    /\ call.resp.kind = "OK"
    /\ call.resp.body.wellformed
    /\ call.outcome.value.articles = ParseDocument(call.resp.body, call.feed.name)

\* C6: every returned result is in exactly one of the classes error set,
\* not_modified true, articles freshly parsed from a 200 response.
C6_ExactlyOneOutcomeClass ==
    call.pc = "returned" =>
        /\ ClassError \/ ClassNotModified \/ ClassFresh
        /\ ~(ClassError /\ ClassNotModified)
        /\ ~(ClassError /\ ClassFresh)
        /\ ~(ClassNotModified /\ ClassFresh)

C6_Witness ==
    /\ call.pc = "returned"
    /\ call.resp.kind = "OK"
    /\ ~call.resp.body.wellformed
    /\ call.cache # NoCache
    /\ ClassError
    /\ ~ClassNotModified
    /\ ~ClassFresh

\* C7: at most MAX_WORKERS calls of fetch_feed are in progress at any
\* moment, however many feeds there are, and every feed is handed to the
\* pool exactly once.
C7_WorkerCapAndSingleDispatch ==
    /\ pool.running <= MAX_WORKERS
    /\ \A i \in 1..pool.n :
         /\ pool.dispatched[i] <= 1
         /\ i <= pool.submitted => pool.dispatched[i] = 1

C7_Witness ==
    /\ pool.n > MAX_WORKERS
    /\ pool.submitted = pool.n
    /\ pool.running = MAX_WORKERS
    /\ PoolQueued > 0

\* C8: the aggregate output is built, and written, only after every feed's
\* fetch has completed and its result has been collected.
C8_OutputBuiltAfterAllCollected ==
    (output.built \/ written \/ pc \in {"write", "done"}) =>
        /\ DOMAIN futures = 1..Len(feeds)
        /\ \A i \in DOMAIN futures : futures[i].state = "collected"
        /\ Len(results) = Len(feeds)

C8_Witness ==
    /\ output.built
    /\ pc = "write"
    /\ Len(feeds) >= 2
    /\ \A i \in DOMAIN futures : futures[i].state = "collected"

\* C9: with an empty feed list main() exits non-zero before the prior
\* output is read, before any fetch is dispatched and without writing.
C9_EmptyFeedListIsFatal ==
    Len(feeds) = 0 =>
        /\ pc \in {"start", "exit1"}
        /\ futures = <<>>
        /\ ~output.built
        /\ ~written

C9_Witness ==
    /\ Len(feeds) = 0
    /\ pc = "exit1"
    /\ ~written

\* C10: whatever the prior output document is, main() treats the prior
\* cache as empty, fetches every feed unconditionally and does not fail.
C10_PriorStateNeverFatal ==
    OUTPUT.shape \in ForeignShapes =>
        /\ pc # "crashed"
        /\ pc \in {"dispatch", "collect", "write", "done"} =>
               feed_cache = PyValue(TRUE, EmptyDict)
        /\ \A i \in DOMAIN futures : futures[i].cache = NoCache

\* the request carries If-None-Match or If-Modified-Since
HasValidators(headers) ==
    headers.IfNoneMatch # None \/ headers.IfModifiedSince # None

\* C11: over runs chained through feedCache, the request for a feed carries
\* conditional validators only if the feed's fetch of the immediately
\* preceding run did not fail; after a run in which it failed, it carries none.
C11_ValidatorsOnlyAfterSuccessfulRun ==
    pc \in {"collect", "write"} =>
        \A i \in DOMAIN futures :
            HasValidators(RequestHeaders(futures[i].cache)) =>
                /\ OUTPUT.shape = "document"
                /\ ~history[feeds[i].name].failed

C11_Witness ==
    /\ pc = "collect"
    /\ OUTPUT.shape = "document"
    /\ \E i \in DOMAIN futures :
         /\ HasValidators(RequestHeaders(futures[i].cache))
         /\ ~history[feeds[i].name].failed
    /\ \E j \in DOMAIN futures :
         /\ history[feeds[j].name].failed
         /\ ~HasValidators(RequestHeaders(futures[j].cache))

RECURSIVE ArticlesOf(_, _)
\* the articles of the list that carry the feed name, in list order
ArticlesOf(articles, name) ==
    IF articles = <<>> THEN <<>>
    ELSE IF Head(articles).feed = name
         THEN <<Head(articles)>> \o ArticlesOf(Tail(articles), name)
         ELSE ArticlesOf(Tail(articles), name)

\* C12: a feed's result is the one its own config, prior cache entry and
\* server response give, and its part of articles, errors and feedCache is
\* the one that result gives, whatever the other feeds' outcomes are; no
\* outcome of a fetch aborts the run.
C12_PerFeedIsolation ==
    /\ pc = "crashed" => futures = <<>>
    /\ \A i \in DOMAIN futures :
         futures[i].state \in {"done", "collected"} =>
             /\ ~futures[i].outcome.raised
             /\ futures[i].outcome =
                    fetch_feed(feeds[i], CacheGet(feed_cache.entries, feeds[i].name),
                               futures[i].resp)
    /\ output.built =>
         \A i \in DOMAIN futures :
             LET r == futures[i].outcome.value
                 name == feeds[i].name
             IN /\ ArticlesOf(output.articles, name) = r.articles
                /\ HasError(r) =>
                       /\ name \in DOMAIN output.errors
                       /\ output.errors[name] = r.error
                       /\ name \notin DOMAIN output.feedCache
                /\ ~HasError(r) =>
                       /\ name \notin DOMAIN output.errors
                       /\ name \in DOMAIN output.feedCache
                       /\ output.feedCache[name] =
                              CacheEntry(r.etag, r.last_modified, r.articles)

C12_Witness ==
    /\ output.built
    /\ \E i, j \in DOMAIN futures :
         /\ HasError(futures[i].outcome.value)
         /\ futures[j].outcome.value.not_modified
         /\ Len(futures[j].outcome.value.articles) >= 1
         /\ feeds[j].name \in DOMAIN output.feedCache
         /\ feeds[i].name \in DOMAIN output.errors

\* the tag of the elements the call turns into articles
ArticleTag ==
    IF parse.pc = "atom" THEN Tag(parse.root.tag.ns, "entry") ELSE Tag("", "item")

\* the positions of those elements in the document, and the k-th of them
ArticlePositions == {p \in DOMAIN parse.root.elems : parse.root.elems[p].tag = ArticleTag}

ArticleElement(k) ==
    LET p == CHOOSE q \in ArticlePositions :
                 Cardinality({x \in ArticlePositions : x <= q}) = k
    IN parse.root.elems[p]

RECURSIVE FirstHref(_, _)
\* the href of the first link with a non-empty href that, when preferred is
\* set, has no rel or rel "alternate"; None when there is none
FirstHref(links, preferred) ==
    IF links = <<>> THEN None
    ELSE IF /\ Head(links).href \notin {None, ""}
            /\ preferred => Head(links).rel \in {None, "alternate"}
         THEN Head(links).href
         ELSE FirstHref(Tail(links), preferred)

RECURSIVE ChildLinks(_)
\* the link elements that are children of the entry, in document order
ChildLinks(links) ==
    IF links = <<>> THEN <<>>
    ELSE IF Head(links).child
         THEN <<Head(links)>> \o ChildLinks(Tail(links))
         ELSE ChildLinks(Tail(links))

\* the link the entry's link child elements resolve to
ResolvedLink(links) ==
    IF FirstHref(ChildLinks(links), TRUE) # None
    THEN FirstHref(ChildLinks(links), TRUE)
    ELSE IF FirstHref(ChildLinks(links), FALSE) # None
         THEN FirstHref(ChildLinks(links), FALSE)
         ELSE "#"

\* C14: the link of an Atom entry is the href of the first link child whose
\* rel is absent or "alternate" and whose href is non-empty, else the href
\* of the first link child with a non-empty href, else "#".
C14_AtomLinkResolution ==
    parse.pc = "atom" =>
        \A k \in DOMAIN parse.articles :
            parse.articles[k].link = ResolvedLink(ArticleElement(k).links)

\* C15: the request always carries the fixed User-Agent; with a prior entry
\* it carries If-None-Match equal to the entry's etag when the entry has
\* one and If-Modified-Since equal to its last_modified when it has one,
\* both when both are there; without a prior entry it carries neither.
C15_RequestHeaders ==
    call.pc = "returned" =>
        /\ call.headers.UserAgent = "FeedFetcher/1.0"
        /\ call.cache = NoCache =>
               /\ call.headers.IfNoneMatch = None
               /\ call.headers.IfModifiedSince = None
        /\ call.cache # NoCache =>
               /\ Truthy(call.cache[1].etag) =>
                      call.headers.IfNoneMatch = call.cache[1].etag
               /\ Truthy(call.cache[1].last_modified) =>
                      call.headers.IfModifiedSince = call.cache[1].last_modified

C15_Witness ==
    /\ call.pc = "returned"
    /\ call.cache # NoCache
    /\ call.cache[1].etag = "e1"
    /\ call.cache[1].last_modified = "d1"
    /\ call.headers.IfNoneMatch = "e1"
    /\ call.headers.IfModifiedSince = "d1"

\* the server answered the fetch of feed i with 304 and the feed had a
\* prior cache entry
NotModifiedWithEntry(i) ==
    /\ futures[i].state \in {"done", "collected"}
    /\ futures[i].resp.kind = "HTTPError" /\ futures[i].resp.code = 304
    /\ futures[i].cache # NoCache

\* C16: on a 304 for a feed with a prior cache entry the result carries the
\* entry's etag and last_modified, and the feedCache entry of the new
\* aggregate output equals the prior entry.
C16_NotModifiedKeepsCacheEntry ==
    \A i \in DOMAIN futures :
        NotModifiedWithEntry(i) =>
            /\ futures[i].outcome.value.etag = futures[i].cache[1].etag
            /\ futures[i].outcome.value.last_modified = futures[i].cache[1].last_modified
            /\ output.built =>
                   /\ feeds[i].name \in DOMAIN output.feedCache
                   /\ output.feedCache[feeds[i].name] = futures[i].cache[1]

C16_Witness ==
    /\ output.built
    /\ \E i \in DOMAIN futures :
         /\ NotModifiedWithEntry(i)
         /\ futures[i].cache[1].etag = "e1"
         /\ Len(futures[i].cache[1].articles) = 1
         /\ output.feedCache[feeds[i].name] = futures[i].cache[1]

\* C17: every result with error set has an empty articles list, no etag and
\* no last_modified, also when the 200 response carried the headers or a
\* prior cache entry with articles existed.
C17_ErrorResultIsEmpty ==
    (call.pc = "returned" /\ call.outcome.value.error # None) =>
        /\ call.outcome.value.articles = <<>>
        /\ call.outcome.value.etag = None
        /\ call.outcome.value.last_modified = None

C17_Witness ==
    /\ call.pc = "returned"
    /\ call.resp.kind = "OK"
    /\ call.resp.etag = "e3"
    /\ call.cache # NoCache
    /\ Len(call.cache[1].articles) >= 1
    /\ call.outcome.value.error = "XML parse error: syntax error: line 1, column 0"
    /\ call.outcome.value.articles = <<>>
    /\ call.outcome.value.etag = None

\* C18: every run with at least one configured feed eventually finishes
\* and writes the aggregate output; no fetch blocks the run forever.
C18_RunFinishesAndWrites ==
    (pc = "start" /\ Len(feeds) >= 1) ~> (pc = "done" /\ written)

\* C19: after a run the key sets of errors and feedCache in the aggregate
\* output are disjoint and their union is the set of configured feed names.
C19_ErrorsAndFeedCachePartitionFeeds ==
    output.built =>
        /\ (DOMAIN output.errors) \cap (DOMAIN output.feedCache) = {}
        /\ (DOMAIN output.errors) \cup (DOMAIN output.feedCache) = FeedNamesOf(feeds)

C19_Witness ==
    /\ output.built
    /\ Len(feeds) = 2
    /\ DOMAIN output.errors = {"A"}
    /\ DOMAIN output.feedCache = {"B"}

\* C20: over runs chained through feedCache, an entry of feedCache for feed F
\* holds the articles parsed from F's most recent 200 response, every run
\* since having returned 304 for F; the articles F contributes to the
\* aggregate in a 304 run are exactly those.
C20_CacheEntryIsLastParsedResponse ==
    /\ OUTPUT.shape = "document" =>
           \A name \in DOMAIN OUTPUT.feedCache :
               /\ history[name].valid
               /\ OUTPUT.feedCache[name].articles = history[name].articles
    /\ (output.built /\ ~written) =>
           \A i \in DOMAIN futures :
               (futures[i].resp.kind = "HTTPError" /\ futures[i].resp.code = 304) =>
                   /\ history[feeds[i].name].valid
                   /\ ArticlesOf(output.articles, feeds[i].name)
                          = history[feeds[i].name].articles

====
